---- MODULE Spec2Model ----
(***************************************************************************)
(* Volt-Ed server: the authentication and authorization session lifecycle. *)
(* OTP issuance (sendOTP), registration (signup), login and the auth       *)
(* middleware, run as concurrent request handlers over the MongoDB         *)
(* collections users, profiles and otps.  Every await of a handler is a    *)
(* yield point: one action is one database operation together with the     *)
(* synchronous code that follows it up to the next await.                  *)
(***************************************************************************)
EXTENDS Integers, FiniteSets, Sequences, TLC

(***************************************************************************)
(* Bounds of the model.                                                    *)
(***************************************************************************)
MaxReqs == 2
MaxOtps == 2
MaxOtpNow == 301
MaxNow == 5400
MaxResetNow == 301
MaxRaceNow == 400

(***************************************************************************)
(* Program constants.                                                      *)
(***************************************************************************)
OtpExpires == 300
JwtExpiresIn == 3600
CookieExpires == 259200
ResetExpire == 300

Reqs == 1..MaxReqs
OtpIds == 1..MaxOtps
Emails == {"a@x.com", "b@x.com", "c@x.com", "d@x.com", "e@x.com"}
RegEmails == {"a@x.com", "d@x.com", "e@x.com"}
Passwords == {"pw1", "pw2"}
Codes == {"111111", "222222"}
AccountTypeEnum == {"Admin", "Instructor", "Student"}
JwtSecret == "JWT_SECRET"

(***************************************************************************)
(* Values: null documents and the shapes of bodies, locals and responses.  *)
(***************************************************************************)
NoToken == [id |-> 0, email |-> "", accountType |-> "", iat |-> 0, exp |-> 0, sig |-> ""]
NoUser == [_id |-> 0, firstName |-> "", lastName |-> "", email |-> "", password |-> "",
           accountType |-> "", image |-> "", token |-> NoToken, Profile |-> 0,
           resetPasswordExpires |-> 0]
NoOtp == [_id |-> 0, email |-> "", otp |-> "", createdAt |-> 0]
NoData == [otp |-> "", token |-> NoToken, password |-> "", email |-> "", accountType |-> "",
           resetLink |-> NoToken, hashedPassword |-> ""]
NoRes == [status |-> 0, message |-> "", error |-> "", data |-> NoData, cookie |-> NoToken]
NoBody == [firstName |-> "", lastName |-> "", email |-> "", password |-> "",
           confirmPassword |-> "", accountType |-> "", otp |-> "",
           cookie |-> NoToken, token |-> NoToken, header |-> NoToken, newPassword |-> "",
           oldPassword |-> ""]
NoLoc == [otp |-> "", otpPresent |-> NoOtp, user |-> NoUser, reqUser |-> NoToken,
          resetToken |-> NoToken, hashedPassword |-> ""]

(***************************************************************************)
(* bcrypt: a hash is not the password, and compare succeeds exactly on the *)
(* hash of the same password.                                              *)
(***************************************************************************)
BcryptHash(password) == "$2b$10$" \o password
\* a compare that accepts every password
BcryptCompareAny(password, hash) == TRUE
BcryptCompare(password, hash) == hash = BcryptHash(password)

(***************************************************************************)
(* The records the database holds when the server connects to it.          *)
(***************************************************************************)
SeedUser(id, email, password, accountType) ==
    [_id |-> id, firstName |-> "Ann", lastName |-> "Lee", email |-> email,
     password |-> BcryptHash(password), accountType |-> accountType,
     image |-> "img", token |-> NoToken, Profile |-> id, resetPasswordExpires |-> 0]
SeedUsers ==
    {SeedUser(1, "a@x.com", "pw1", "Student"), SeedUser(2, "b@x.com", "pw2", "Instructor"),
     SeedUser(3, "c@x.com", "pw1", "Admin")}

VARIABLES users, profiles, otps, now, strictPopulate,
          pc, op, body, loc, res, hist, cookieJar, resetLinks

vars == <<users, profiles, otps, now, strictPopulate,
          pc, op, body, loc, res, hist, cookieJar, resetLinks>>
store == <<users, profiles, otps>>

NoHist == [users |-> {}, profiles |-> {}, mailed |-> "", next |-> FALSE, t |-> 0, end |-> 0]

Init ==
    /\ users = SeedUsers
    /\ profiles = {u.Profile : u \in users}
    /\ otps = {}
    /\ now = 0
    /\ strictPopulate \in BOOLEAN
    /\ pc = [r \in Reqs |-> "idle"]
    /\ op = [r \in Reqs |-> ""]
    /\ body = [r \in Reqs |-> NoBody]
    /\ loc = [r \in Reqs |-> NoLoc]
    /\ res = [r \in Reqs |-> NoRes]
    /\ hist = [r \in Reqs |-> NoHist]
    /\ cookieJar = [token |-> NoToken, expires |-> 0]
    /\ resetLinks = {}

(***************************************************************************)
(* Model.findOne: one matching document, or null.                          *)
(***************************************************************************)
FindOne(docs, null) == IF docs = {} THEN {null} ELSE docs
UserFindOneNone(email) == {NoUser}
UserFindOne(email) == FindOne({u \in users : u.email = email}, NoUser)
OtpFindOneNone(code) == {NoOtp}
OtpFindOne(code) == FindOne({o \in otps : o.otp = code}, NoOtp)
\* OTP.findOne({ email }).sort({ createdAt: -1 }).limit(1)
OtpFindRecent(email) ==
    LET mine == {o \in otps : o.email = email}
    IN FindOne({o \in mine : \A p \in mine : p.createdAt <= o.createdAt}, NoOtp)

Respond(r, status, message) ==
    /\ res' = [res EXCEPT ![r] = [NoRes EXCEPT !.status = status, !.message = message]]
    /\ pc' = [pc EXCEPT ![r] = "done"]

Done(r, name) == pc[r] = "done" /\ op[r] = name

Arrive(r, name, b, next) ==
    /\ pc[r] \in {"idle", "done"}
    /\ op' = [op EXCEPT ![r] = name]
    /\ body' = [body EXCEPT ![r] = b]
    /\ hist' = [hist EXCEPT ![r] = [NoHist EXCEPT !.users = users, !.profiles = profiles,
                                                  !.t = now, !.next = next]]
Begin(r, name, b) == Arrive(r, name, b, FALSE)

(***************************************************************************)
(* sendOTP                                                                 *)
(***************************************************************************)
InFlightOtp == {r \in Reqs : pc[r] \in {"so_findOtp", "so_create"}}

\* User.findOne({ email }); reject a registered email, else generate a code
SendOTP_FindUser(r) ==
    \E email \in RegEmails :
        /\ Begin(r, "sendOTP", [NoBody EXCEPT !.email = email])
        /\ Cardinality(otps) + Cardinality(InFlightOtp) < MaxOtps
        /\ \E userPresent \in UserFindOne(email) :
            IF userPresent # NoUser
            THEN /\ Respond(r, 401, "User already registered")
                 /\ loc' = [loc EXCEPT ![r] = NoLoc]
            ELSE \E otp \in Codes :
                 /\ loc' = [loc EXCEPT ![r] = [NoLoc EXCEPT !.otp = otp]]
                 /\ pc' = [pc EXCEPT ![r] = "so_findOtp"]
                 /\ res' = [res EXCEPT ![r] = NoRes]
        /\ UNCHANGED <<store, now, strictPopulate, cookieJar, resetLinks>>

\* const result = await OTP.findOne({ otp }); while (result) { ...; result = ... }
\* the assignment to the const binding throws TypeError on the first iteration
SendOTP_FindOtp(r) ==
    /\ pc[r] = "so_findOtp"
    /\ \E result \in OtpFindOne(loc[r].otp) :
        IF result # NoOtp
        THEN /\ UNCHANGED loc
             /\ res' = [res EXCEPT ![r] = [NoRes EXCEPT !.status = 500,
                                                        !.message = "Unable to send OTP",
                                                        !.error = "TypeError"]]
             /\ pc' = [pc EXCEPT ![r] = "done"]
             /\ UNCHANGED hist
        ELSE /\ loc' = [loc EXCEPT ![r].otpPresent =
                            [NoOtp EXCEPT !.email = body[r].email, !.otp = loc[r].otp,
                                          !.createdAt = now]]
             /\ UNCHANGED hist
             /\ pc' = [pc EXCEPT ![r] = "so_create"]
             /\ UNCHANGED res
    /\ UNCHANGED <<store, now, strictPopulate, op, body, cookieJar, resetLinks>>

\* OTP.create(payload): the pre-save hook sends the verification email (mailSender swallows
\* a failed delivery), the document is inserted, then res.status(200).json({ data })
SendOTP_Create(r) ==
    /\ pc[r] = "so_create"
    /\ \E outcome \in {"delivered", "failed"} :
        LET free == {i \in OtpIds : \A o \in otps : o._id # i}
            id == CHOOSE i \in free : \A j \in free : i <= j
            doc == [loc[r].otpPresent EXCEPT !._id = id]
        IN /\ otps' = otps \cup {doc}
           /\ hist' = [hist EXCEPT ![r].mailed = outcome]
    /\ loc' = [loc EXCEPT ![r] = NoLoc]
    /\ res' = [res EXCEPT ![r] = [NoRes EXCEPT !.status = 200,
                                               !.message = "OTP sent successfully",
                                               !.data = [NoData EXCEPT !.otp = loc[r].otp,
                                                                       !.email = body[r].email]]]
    /\ pc' = [pc EXCEPT ![r] = "done"]
    /\ UNCHANGED <<users, profiles, now, strictPopulate, op, body, cookieJar, resetLinks>>

(***************************************************************************)
(* signup                                                                  *)
(***************************************************************************)
SignupBody(email, password, confirmPassword, accountType, otp) ==
    [NoBody EXCEPT !.firstName = "Ann", !.lastName = "Lee", !.email = email,
                   !.password = password, !.confirmPassword = confirmPassword,
                   !.accountType = accountType, !.otp = otp]
SignupFields ==
    {"firstName", "lastName", "email", "password", "confirmPassword", "accountType", "otp"}
SignupBodies ==
    LET base == SignupBody("d@x.com", "pw1", "pw1", "Student", "111111")
    IN {SignupBody(e, "pw1", "pw1", "Student", o) : e \in {"a@x.com", "d@x.com"}, o \in Codes}
       \cup {SignupBody("d@x.com", "pw1", "pw2", "Student", "111111"),
             SignupBody("d@x.com", "pw1", "pw1", "Guest", "111111")}
       \cup {[base EXCEPT ![f] = ""] : f \in {"firstName", "otp"}}

\* the paths of an OTP document; it is a single document, not an array of documents
OtpDocPaths == {"_id", "email", "otp", "createdAt"}

\* the check as its branches are meant: no record is 'OTP Expired', another code 'Invalid OTP'
SignupOtpCheckMeant(otpPresent, otp) ==
    IF otpPresent = NoOtp THEN "OTP Expired"
    ELSE IF otpPresent.otp # otp THEN "Invalid OTP"
    ELSE "pass"
\* if (otpPresent.length == 0) ... else if (otpPresent[0].otp !== otp) ...
\* null.length throws; on a document .length and [0] are undefined, so [0].otp throws
SignupOtpCheck(otpPresent, otp) ==
    IF otpPresent = NoOtp THEN "TypeError"
    ELSE IF "length" \in OtpDocPaths /\ otpPresent.createdAt = 0 THEN "OTP Expired"
    ELSE IF "0" \notin OtpDocPaths THEN "TypeError"
    ELSE IF otpPresent.otp # otp THEN "Invalid OTP"
    ELSE "pass"

\* UserSchema: the required paths and the accountType enum
UserSchemaValid(doc) ==
    /\ doc.firstName # "" /\ doc.lastName # "" /\ doc.email # "" /\ doc.password # ""
    /\ doc.accountType \in AccountTypeEnum
    /\ doc.image # ""
    /\ doc.Profile # 0

NewId(ids) == IF ids = {} THEN 1 ELSE 1 + CHOOSE i \in ids : \A j \in ids : j <= i

\* User.create({ ..., additionalDetails: profileDetails._id, image }): additionalDetails is
\* not a path of UserSchema and is dropped, so the required path Profile stays unset
SignupUserDoc(b, us, profileId) ==
    [NoUser EXCEPT !._id = NewId({u._id : u \in us}), !.firstName = b.firstName,
                   !.lastName = b.lastName, !.email = b.email,
                   !.password = BcryptHash(b.password), !.accountType = b.accountType,
                   !.image = "img"]

SignupRes(status, message) == [NoRes EXCEPT !.status = status, !.message = message]

\* signup as it is meant: compare the code of the recent record, then create profile and user
SignupFinishLenient(otpPresent, b, us, ps) ==
    IF otpPresent = NoOtp
    THEN [res |-> SignupRes(400, "OTP Expired"), users |-> us, profiles |-> ps]
    ELSE IF otpPresent.otp # b.otp
    THEN [res |-> SignupRes(400, "Invalid OTP"), users |-> us, profiles |-> ps]
    ELSE LET pid == NewId(ps)
             doc == [SignupUserDoc(b, us, pid) EXCEPT !.Profile = pid]
         IN [res |-> [SignupRes(201, "User registered successfully") EXCEPT
                         !.data = [NoData EXCEPT !.email = doc.email,
                                                 !.password = doc.password,
                                                 !.accountType = doc.accountType]],
             users |-> us \cup {doc}, profiles |-> ps \cup {pid}]

\* signup from the OTP validation to the response (Auth.js 181-232)
SignupFinish(otpPresent, b, us, ps) ==
    LET check == SignupOtpCheck(otpPresent, b.otp)
        pid == NewId(ps)
        doc == SignupUserDoc(b, us, pid)
    IN CASE check = "OTP Expired" ->
              [res |-> SignupRes(400, "OTP Expired"), users |-> us, profiles |-> ps]
         [] check = "Invalid OTP" ->
              [res |-> SignupRes(400, "Invalid OTP"), users |-> us, profiles |-> ps]
         [] check = "TypeError" ->
              [res |-> [SignupRes(500, "Unable to register user") EXCEPT !.error = "TypeError"],
               users |-> us, profiles |-> ps]
         [] check = "pass" /\ ~UserSchemaValid(doc) ->
              [res |-> [SignupRes(500, "Unable to register user") EXCEPT
                           !.error = "ValidationError"],
               users |-> us, profiles |-> ps \cup {pid}]
         [] OTHER ->
              [res |-> [SignupRes(201, "User registered successfully") EXCEPT
                           !.data = [NoData EXCEPT !.email = doc.email,
                                                   !.password = doc.password,
                                                   !.accountType = doc.accountType]],
               users |-> us \cup {doc}, profiles |-> ps \cup {pid}]

\* the field checks, then User.findOne({ email })
Signup_FindUser(r) ==
    \E b \in SignupBodies :
        /\ Begin(r, "signup", b)
        /\ loc' = [loc EXCEPT ![r] = NoLoc]
        /\ IF \E f \in SignupFields : b[f] = ""
           THEN Respond(r, 400, "All fields are required")
           ELSE IF b.password # b.confirmPassword
           THEN Respond(r, 400, "Passwords do not match")
           ELSE \E userPresent \in UserFindOne(b.email) :
                IF userPresent # NoUser
                THEN Respond(r, 400, "User already registered")
                ELSE /\ pc' = [pc EXCEPT ![r] = "su_findOtp"]
                     /\ res' = [res EXCEPT ![r] = NoRes]
        /\ UNCHANGED <<store, now, strictPopulate, cookieJar, resetLinks>>

\* a signup that consumes the record it compared with
Signup_FindOtpConsuming(r) ==
    /\ pc[r] = "su_findOtp"
    /\ \E otpPresent \in OtpFindRecent(body[r].email) :
        LET out == SignupFinish(otpPresent, body[r], users, profiles)
        IN /\ loc' = [loc EXCEPT ![r].otpPresent = otpPresent]
           /\ hist' = [hist EXCEPT ![r].t = now]
           /\ users' = out.users
           /\ profiles' = out.profiles
           /\ res' = [res EXCEPT ![r] = out.res]
           /\ otps' = otps \ {otpPresent}
    /\ pc' = [pc EXCEPT ![r] = "done"]
    /\ UNCHANGED <<now, strictPopulate, op, body, cookieJar, resetLinks>>
\* OTP.findOne({ email }).sort({ createdAt: -1 }).limit(1), then the rest of the handler
Signup_FindOtp(r) ==
    /\ pc[r] = "su_findOtp"
    /\ \E otpPresent \in OtpFindRecent(body[r].email) :
        LET out == SignupFinish(otpPresent, body[r], users, profiles)
        IN /\ loc' = [loc EXCEPT ![r].otpPresent = otpPresent]
           /\ hist' = [hist EXCEPT ![r].t = now]
           /\ users' = out.users
           /\ profiles' = out.profiles
           /\ res' = [res EXCEPT ![r] = out.res]
    /\ pc' = [pc EXCEPT ![r] = "done"]
    /\ UNCHANGED <<otps, now, strictPopulate, op, body, cookieJar, resetLinks>>

(***************************************************************************)
(* jsonwebtoken: the signature is the key that signed; verify checks the   *)
(* signature, then the expiry, and returns the payload.                    *)
(***************************************************************************)
\* a token signed to expire at once
JwtSignExpired(payload, secret, expiresIn, t) ==
    [id |-> payload.id, email |-> payload.email, accountType |-> payload.accountType,
     iat |-> t, exp |-> t, sig |-> secret]
JwtSign(payload, secret, expiresIn, t) ==
    [id |-> payload.id, email |-> payload.email, accountType |-> payload.accountType,
     iat |-> t, exp |-> t + expiresIn, sig |-> secret]
\* a verify that also wants the token to be the one stored on the User record
JwtVerifyStored(token, secret, t) ==
    IF token.sig # secret THEN "JsonWebTokenError"
    ELSE IF t >= token.exp THEN "TokenExpiredError"
    ELSE IF \A u \in users : u._id = token.id => u.token # token THEN "JsonWebTokenError"
    ELSE "ok"
JwtVerifyNoExp(token, secret, t) ==
    IF token.sig # secret THEN "JsonWebTokenError" ELSE "ok"
JwtVerify(token, secret, t) ==
    IF token.sig # secret THEN "JsonWebTokenError"
    ELSE IF t >= token.exp THEN "TokenExpiredError"
    ELSE "ok"
JwtDecoded(token) == [token EXCEPT !.sig = ""]
ForgedToken == [id |-> 3, email |-> "c@x.com", accountType |-> "Admin",
                iat |-> 0, exp |-> MaxNow + JwtExpiresIn, sig |-> "forged"]

(***************************************************************************)
(* login                                                                   *)
(***************************************************************************)
LoginBody(email, password) == [NoBody EXCEPT !.email = email, !.password = password]
LoginBodies ==
    {LoginBody("a@x.com", "pw1"), LoginBody("a@x.com", "pw2"), LoginBody("b@x.com", "pw2"),
     LoginBody("c@x.com", "pw1"), LoginBody("d@x.com", "pw1"), LoginBody("", "pw1"),
     LoginBody("a@x.com", "")}

\* the field check, then User.findOne({ email }).populate("additionalDetails"):
\* additionalDetails is not a path of UserSchema, which a strictPopulate build rejects
\* when a document was found
Login_FindUser(r) ==
    \E b \in LoginBodies :
        /\ Begin(r, "login", b)
        /\ IF b.email = "" \/ b.password = ""
           THEN /\ Respond(r, 400, "All fields are required")
                /\ loc' = [loc EXCEPT ![r] = NoLoc]
           ELSE \E user \in UserFindOne(b.email) :
                IF user = NoUser
                THEN /\ Respond(r, 400, "Invalid credentials")
                     /\ loc' = [loc EXCEPT ![r] = NoLoc]
                ELSE IF strictPopulate
                THEN /\ res' = [res EXCEPT ![r] = [NoRes EXCEPT !.status = 500,
                                                     !.message = "Unable to login",
                                                     !.error = "StrictPopulateError"]]
                     /\ pc' = [pc EXCEPT ![r] = "done"]
                     /\ loc' = [loc EXCEPT ![r] = NoLoc]
                ELSE /\ loc' = [loc EXCEPT ![r] = [NoLoc EXCEPT !.user = user]]
                     /\ pc' = [pc EXCEPT ![r] = "li_compare"]
                     /\ res' = [res EXCEPT ![r] = NoRes]
        /\ UNCHANGED <<store, now, strictPopulate, cookieJar, resetLinks>>

\* bcrypt.compare, jwt.sign, user.token = token on the fetched document (never saved),
\* res.cookie("token", token, { expires: 3 days }).status(200).json({ data: user })
Login_Compare(r) ==
    /\ pc[r] = "li_compare"
    /\ IF ~BcryptCompare(body[r].password, loc[r].user.password)
       THEN /\ Respond(r, 400, "Invalid credentials")
            /\ UNCHANGED <<loc, cookieJar>>
       ELSE LET user == loc[r].user
                payload == [id |-> user._id, email |-> user.email,
                            accountType |-> user.accountType]
                token == JwtSign(payload, JwtSecret, JwtExpiresIn, now)
            IN /\ loc' = [loc EXCEPT ![r].user = [user EXCEPT !.token = token, !.password = ""]]
               /\ res' = [res EXCEPT ![r] =
                            [NoRes EXCEPT !.status = 200,
                                          !.message = "User logged in successfully",
                                          !.data = [NoData EXCEPT !.token = token,
                                                                  !.email = user.email,
                                                                  !.accountType = user.accountType],
                                          !.cookie = token]]
               /\ cookieJar' = [token |-> token, expires |-> now + CookieExpires]
               /\ pc' = [pc EXCEPT ![r] = "done"]
    /\ hist' = [hist EXCEPT ![r].t = now]
    /\ UNCHANGED <<store, now, strictPopulate, op, body, resetLinks>>

(***************************************************************************)
(* The auth middleware                                                     *)
(***************************************************************************)
\* what a client presents: the token of its unexpired cookie or a forged token, in the
\* cookie, in the body or in the Authorization header
AuthRequest(cookie, token, header) ==
    [NoBody EXCEPT !.cookie = cookie, !.token = token, !.header = header]
AuthRequests ==
    LET jar == IF now < cookieJar.expires THEN cookieJar.token ELSE NoToken
    IN {AuthRequest(NoToken, NoToken, NoToken), AuthRequest(jar, NoToken, NoToken),
        AuthRequest(NoToken, jar, NoToken), AuthRequest(NoToken, NoToken, jar),
        AuthRequest(ForgedToken, NoToken, NoToken), AuthRequest(ForgedToken, jar, NoToken),
        AuthRequest(jar, ForgedToken, NoToken)}

\* req.cookies.token || req.body.token || req.headers("Authorization").replace(...):
\* req.headers is an object, so calling it throws TypeError
AuthExtract(b) ==
    IF b.cookie # NoToken THEN [thrown |-> FALSE, token |-> b.cookie]
    ELSE IF b.token # NoToken THEN [thrown |-> FALSE, token |-> b.token]
    ELSE [thrown |-> TRUE, token |-> NoToken]

AuthFail(status, error, message) ==
    [NoRes EXCEPT !.status = status, !.error = error, !.message = message]

\* an auth whose rejection of a token does not return: it responds 401 and goes on to next()
AuthOutcomeFallThrough(b, t) ==
    LET ex == AuthExtract(b)
        verdict == JwtVerify(ex.token, JwtSecret, t)
    IN IF ex.thrown
       THEN [next |-> FALSE, reqUser |-> NoToken,
             res |-> AuthFail(500, "Unable to validate token", "TypeError")]
       ELSE IF ex.token = NoToken
       THEN [next |-> FALSE, reqUser |-> NoToken, res |-> AuthFail(401, "Token is missing", "")]
       ELSE IF verdict # "ok"
       THEN [next |-> TRUE, reqUser |-> NoToken,
             res |-> AuthFail(401, "Token is invalid", verdict)]
       ELSE [next |-> TRUE, reqUser |-> JwtDecoded(ex.token), res |-> NoRes]
\* auth from the extracted token to next() or to a failure response
AuthOutcome(b, t) ==
    LET ex == AuthExtract(b)
        verdict == JwtVerify(ex.token, JwtSecret, t)
    IN IF ex.thrown
       THEN [next |-> FALSE, reqUser |-> NoToken,
             res |-> AuthFail(500, "Unable to validate token", "TypeError")]
       ELSE IF ex.token = NoToken
       THEN [next |-> FALSE, reqUser |-> NoToken, res |-> AuthFail(401, "Token is missing", "")]
       ELSE IF verdict # "ok"
       THEN [next |-> FALSE, reqUser |-> NoToken,
             res |-> AuthFail(401, "Token is invalid", verdict)]
       ELSE [next |-> TRUE, reqUser |-> JwtDecoded(ex.token), res |-> NoRes]

\* auth has no await: one step from the request to its outcome
AuthOn(r, requests) ==
    \E b \in requests :
        LET out == AuthOutcome(b, now)
        IN /\ Arrive(r, "auth", b, out.next)
           /\ res' = [res EXCEPT ![r] = out.res]
           /\ loc' = [loc EXCEPT ![r] = [NoLoc EXCEPT !.reqUser = out.reqUser]]
           /\ pc' = [pc EXCEPT ![r] = "done"]
           /\ UNCHANGED <<store, now, strictPopulate, cookieJar, resetLinks>>
Auth(r) == AuthOn(r, AuthRequests)

\* a client that kept the tokens of its login responses presents one of them in the body
KeptRequests ==
    {AuthRequest(NoToken, res[q].data.token, NoToken) :
        q \in {p \in Reqs : pc[p] = "done" /\ op[p] = "login" /\ res[p].status = 200}}
AuthKept(r) == AuthOn(r, KeptRequests)

(***************************************************************************)
(* The role gates isStudent, isInstructor, isAdmin: each route runs its     *)
(* gate right after auth has called next (routes: auth, isX, handler).     *)
(***************************************************************************)
\* a gate that lets Admin through every check
RoleCheckHierarchy(accountType, role) == accountType = role \/ accountType = "Admin"
\* if (accountType !== "<role>") deny
RoleCheck(accountType, role) == accountType = role

RoleGate(r, gate, role) ==
    /\ Done(r, "auth")
    /\ hist[r].next
    /\ op' = [op EXCEPT ![r] = gate]
    /\ IF RoleCheck(loc[r].reqUser.accountType, role)
       THEN /\ res' = [res EXCEPT ![r] = NoRes]
            /\ hist' = [hist EXCEPT ![r].next = TRUE]
       ELSE /\ res' = [res EXCEPT ![r] =
                         AuthFail(403, "Access Denied",
                                  "You are not authorized to access this resource")]
            /\ hist' = [hist EXCEPT ![r].next = FALSE]
    /\ UNCHANGED <<store, now, strictPopulate, pc, body, loc, cookieJar, resetLinks>>

IsStudent(r) == RoleGate(r, "isStudent", "Student")
IsInstructor(r) == RoleGate(r, "isInstructor", "Instructor")
IsAdmin(r) == RoleGate(r, "isAdmin", "Admin")

\* mailSender(emailID, subject, body) sends to `${emailID}` and swallows every error
MailSender(emailID) == IF emailID \in Emails THEN {"delivered", "failed"} ELSE {"failed"}

(***************************************************************************)
(* changePassword, mounted behind auth                                     *)
(***************************************************************************)
ChangeBodies ==
    {[oldPassword |-> "pw1", newPassword |-> "pw2", confirmPassword |-> "pw2"],
     [oldPassword |-> "pw2", newPassword |-> "pw2", confirmPassword |-> "pw2"],
     [oldPassword |-> "pw1", newPassword |-> "pw2", confirmPassword |-> "pw1"],
     [oldPassword |-> "", newPassword |-> "pw2", confirmPassword |-> "pw2"]}

UserFindById(id) == FindOne({u \in users : u._id = id}, NoUser)

\* User.findById(req.user.id), the field check, bcrypt.compare (user.password throws on
\* null), the confirmation check, bcrypt.genSalt and bcrypt.hash
ChangePassword_FindById(r) ==
    /\ Done(r, "auth")
    /\ hist[r].next
    /\ \E c \in ChangeBodies : \E user \in UserFindById(loc[r].reqUser.id) :
        /\ op' = [op EXCEPT ![r] = "changePassword"]
        /\ body' = [body EXCEPT ![r] = [@ EXCEPT !.oldPassword = c.oldPassword,
                                                 !.newPassword = c.newPassword,
                                                 !.confirmPassword = c.confirmPassword]]
        /\ hist' = [hist EXCEPT ![r].users = users]
        /\ IF c.oldPassword = "" \/ c.newPassword = "" \/ c.confirmPassword = ""
           THEN Respond(r, 400, "All fields are required") /\ UNCHANGED loc
           ELSE IF user = NoUser
           THEN /\ res' = [res EXCEPT ![r] = [NoRes EXCEPT !.status = 500,
                                                !.message = "Unable to update password",
                                                !.error = "TypeError"]]
                /\ UNCHANGED <<pc, loc>>
           ELSE IF ~BcryptCompare(c.oldPassword, user.password)
           THEN Respond(r, 400, "Invalid credentials") /\ UNCHANGED loc
           ELSE IF c.newPassword # c.confirmPassword
           THEN Respond(r, 400, "Passwords do not match") /\ UNCHANGED loc
           ELSE /\ loc' = [loc EXCEPT ![r].user = user,
                                      ![r].hashedPassword = BcryptHash(c.newPassword)]
                /\ pc' = [pc EXCEPT ![r] = "cp_update"]
                /\ res' = [res EXCEPT ![r] = NoRes]
    /\ UNCHANGED <<store, now, strictPopulate, cookieJar, resetLinks>>

\* User.findByIdAndUpdate(req.user.id, { password: hashedPassword }), the notification
\* mail inside its own try, res.status(200)
ChangePassword_Update(r) ==
    /\ pc[r] = "cp_update"
    /\ users' = {IF u._id = loc[r].reqUser.id
                 THEN [u EXCEPT !.password = loc[r].hashedPassword] ELSE u : u \in users}
    /\ \E outcome \in MailSender(loc[r].user.email) :
        hist' = [hist EXCEPT ![r].mailed = outcome, ![r].end = now]
    /\ Respond(r, 200, "Password updated successfully")
    /\ UNCHANGED <<profiles, otps, now, strictPopulate, op, body, loc, cookieJar, resetLinks>>

(***************************************************************************)
(* Password reset: resetPasswordToken and updatePassword                   *)
(***************************************************************************)
\* crypto.randomBytes(20).toString("hex"): a string that is not a JWT, only its text set
ResetTokens == {[NoToken EXCEPT !.sig = "hex1"], [NoToken EXCEPT !.sig = "hex2"]}
ResetEmails == {"a@x.com", "d@x.com"}

\* the paths of UserSchema that the model carries; the schema is strict, so a property
\* assigned under any other name stays on the document object and is never stored
UserSchemaPaths ==
    {"_id", "firstName", "lastName", "email", "password", "accountType", "image", "token",
     "resetPasswordExpires", "Profile"}

\* the reset token stored under the schema path token, where updatePassword looks for it
ResetTokenPathMeant == "token"
\* user.resetPasswordToken = resetToken
ResetTokenPath == "resetPasswordToken"
\* user.resetPasswordExpire = Date.now() + 300000
ResetExpirePath == "resetPasswordExpire"

\* doc[path] = value on a Mongoose document
DocSet(doc, path, value) ==
    IF path \in UserSchemaPaths THEN [doc EXCEPT ![path] = value] ELSE doc
\* doc.save() for one modified path: $set of the path on the stored record
CopyPath(stored, doc, path) ==
    IF path \in UserSchemaPaths THEN [stored EXCEPT ![path] = doc[path]] ELSE stored

\* the tokens generated so far, issued or about to be
IssuedTokens ==
    {l.token : l \in resetLinks} \cup {loc[r].resetToken : r \in {q \in Reqs : pc[q] = "rp_save"}}

\* User.findOne({ email }); 404 without a user, else token and expiry set on the document;
\* twenty random bytes do not repeat: a generated token is one not generated before
ResetPasswordToken_FindUser(r) ==
    \E email \in ResetEmails :
        /\ Begin(r, "resetPasswordToken", [NoBody EXCEPT !.email = email])
        /\ \E user \in UserFindOne(email) :
            IF user = NoUser
            THEN /\ Respond(r, 404, "User not found.")
                 /\ loc' = [loc EXCEPT ![r] = NoLoc]
            ELSE \E resetToken \in ResetTokens \ IssuedTokens :
                 /\ loc' = [loc EXCEPT ![r] =
                              [NoLoc EXCEPT !.user = DocSet(DocSet(user, ResetTokenPath, resetToken),
                                                            ResetExpirePath, now + ResetExpire),
                                            !.resetToken = resetToken]]
                 /\ pc' = [pc EXCEPT ![r] = "rp_save"]
                 /\ res' = [res EXCEPT ![r] = NoRes]
        /\ UNCHANGED <<store, now, strictPopulate, cookieJar, resetLinks>>

\* await user.save(); mailSender({ to, subject, html }) with one object as emailID;
\* res.status(200).json({ resetLink })
ResetPasswordToken_Save(r) ==
    /\ pc[r] = "rp_save"
    /\ users' = {IF u._id = loc[r].user._id
                 THEN CopyPath(CopyPath(u, loc[r].user, ResetTokenPath),
                               loc[r].user, ResetExpirePath)
                 ELSE u : u \in users}
    /\ \E outcome \in MailSender("[object Object]") :
        hist' = [hist EXCEPT ![r].mailed = outcome]
    /\ res' = [res EXCEPT ![r] =
                 [NoRes EXCEPT !.status = 200,
                               !.message = "Reset password link sent successfully.",
                               !.data = [NoData EXCEPT !.resetLink = loc[r].resetToken]]]
    /\ resetLinks' = resetLinks \cup {[token |-> loc[r].resetToken, email |-> body[r].email,
                                       t |-> hist[r].t]}
    /\ pc' = [pc EXCEPT ![r] = "done"]
    /\ UNCHANGED <<profiles, otps, now, strictPopulate, op, body, loc, cookieJar>>

UpdateBody(token, newPassword, confirmPassword) ==
    [NoBody EXCEPT !.token = token, !.newPassword = newPassword,
                   !.confirmPassword = confirmPassword]
\* a body without a token has token undefined
UpdateBodies ==
    {UpdateBody(t, "pw2", "pw2") : t \in ResetTokens \cup {NoToken}}
    \cup {UpdateBody([NoToken EXCEPT !.sig = "hex1"], "pw2", "pw1")}

\* User.findOne({ token }): an undefined token is sent as null and matches every record
\* whose token is null or missing
UserFindOneByToken(token) == FindOne({u \in users : u.token = token}, NoUser)

\* user.resetPasswordExpire < Date.now(): the path is not in the schema, the read gives
\* undefined and the comparison is false
ResetExpired(user, t) ==
    IF "resetPasswordExpire" \in UserSchemaPaths THEN user["resetPasswordExpire"] < t
    ELSE FALSE

\* the password check, User.findOne({ token }), const { email, firstName } = user (throws
\* TypeError on null, before the null check), the expiry check, bcrypt.hash
UpdatePassword_FindUser(r) ==
    \E b \in UpdateBodies :
        /\ Begin(r, "updatePassword", b)
        /\ IF b.newPassword # b.confirmPassword
           THEN /\ Respond(r, 400, "Passwords do not match.")
                /\ loc' = [loc EXCEPT ![r] = NoLoc]
           ELSE \E user \in UserFindOneByToken(b.token) :
                IF user = NoUser
                THEN /\ res' = [res EXCEPT ![r] =
                                  [NoRes EXCEPT !.status = 500,
                                                !.message = "Unable to update password.",
                                                !.error = "TypeError"]]
                     /\ pc' = [pc EXCEPT ![r] = "done"]
                     /\ loc' = [loc EXCEPT ![r] = NoLoc]
                ELSE IF ResetExpired(user, now)
                THEN /\ Respond(r, 400, "Token expired.")
                     /\ loc' = [loc EXCEPT ![r] = NoLoc]
                ELSE /\ loc' = [loc EXCEPT ![r] =
                                  [NoLoc EXCEPT !.user = user,
                                                !.hashedPassword = BcryptHash(b.newPassword)]]
                     /\ pc' = [pc EXCEPT ![r] = "up_save"]
                     /\ res' = [res EXCEPT ![r] = NoRes]
        /\ UNCHANGED <<store, now, strictPopulate, cookieJar, resetLinks>>

\* user.password = hashedPassword; user.token = null; user.resetPasswordExpires = null;
\* await user.save(); mailSender({ ... }); res.status(200).json({ data })
UpdatePassword_Save(r) ==
    /\ pc[r] = "up_save"
    /\ users' = {IF u._id = loc[r].user._id
                 THEN [u EXCEPT !.password = loc[r].hashedPassword, !.token = NoToken,
                                !.resetPasswordExpires = 0]
                 ELSE u : u \in users}
    /\ \E outcome \in MailSender("[object Object]") :
        hist' = [hist EXCEPT ![r].mailed = outcome, ![r].end = now]
    /\ res' = [res EXCEPT ![r] =
                 [NoRes EXCEPT !.status = 200,
                               !.message = "Password updated successfully.",
                               !.data = [NoData EXCEPT !.hashedPassword = loc[r].hashedPassword,
                                                       !.email = loc[r].user.email]]]
    /\ pc' = [pc EXCEPT ![r] = "done"]
    /\ UNCHANGED <<profiles, otps, now, strictPopulate, op, body, loc, cookieJar, resetLinks>>

(***************************************************************************)
(* The environment: the clock, MongoDB's TTL monitor, the end of a request *)
(***************************************************************************)
Tick(d, max) ==
    /\ now + d <= max
    /\ now' = now + d
    /\ UNCHANGED <<store, strictPopulate, pc, op, body, loc, res, hist, cookieJar, resetLinks>>

\* createdAt: { expires: 300 }: the TTL monitor deletes a document some time after it expired
TTLPurge ==
    /\ \E o \in otps :
        /\ o.createdAt + OtpExpires <= now
        /\ otps' = otps \ {o}
    /\ UNCHANGED <<users, profiles, now, strictPopulate,
                   pc, op, body, loc, res, hist, cookieJar, resetLinks>>

TickOtp == Tick(OtpExpires + 1, MaxOtpNow)
TickJwt == Tick(JwtExpiresIn \div 2, MaxNow)
TickReset == Tick(ResetExpire + 1, MaxResetNow)
TickRace == Tick(OtpExpires \div 3, MaxRaceNow)

NextReg ==
    \/ \E r \in Reqs : SendOTP_FindUser(r)
    \/ \E r \in Reqs : SendOTP_FindOtp(r)
    \/ \E r \in Reqs : SendOTP_Create(r)
    \/ \E r \in Reqs : Signup_FindUser(r)
    \/ \E r \in Reqs : Signup_FindOtp(r)
    \/ TickOtp
    \/ TTLPurge

NextSession ==
    \/ \E r \in Reqs : Login_FindUser(r)
    \/ \E r \in Reqs : Login_Compare(r)
    \/ \E r \in Reqs : Auth(r)
    \/ TickJwt
SpecSession == Init /\ [][NextSession]_vars

\* the protected routes: a request passes auth, then the gate of its route
NextGate ==
    \/ \E r \in Reqs : Login_FindUser(r)
    \/ \E r \in Reqs : Login_Compare(r)
    \/ \E r \in Reqs : Auth(r)
    \/ \E r \in Reqs : IsStudent(r)
    \/ \E r \in Reqs : IsInstructor(r)
    \/ \E r \in Reqs : IsAdmin(r)
SpecGate == Init /\ [][NextGate]_vars

InitReg == Init /\ ~strictPopulate
SpecReg == InitReg /\ [][NextReg]_vars

\* the reset-password routes
NextReset ==
    \/ \E r \in Reqs : ResetPasswordToken_FindUser(r)
    \/ \E r \in Reqs : ResetPasswordToken_Save(r)
    \/ \E r \in Reqs : UpdatePassword_FindUser(r)
    \/ \E r \in Reqs : UpdatePassword_Save(r)
    \/ TickReset
SpecReset == InitReg /\ [][NextReset]_vars

\* a reset and then logins, one request after the other
NextResetLogin ==
    \/ ResetPasswordToken_FindUser(1)
    \/ ResetPasswordToken_Save(1)
    \/ UpdatePassword_FindUser(1)
    \/ UpdatePassword_Save(1)
    \/ (pc[1] \in {"idle", "done"} /\ Login_FindUser(2))
    \/ Login_Compare(2)
SpecResetLogin == InitReg /\ [][NextResetLogin]_vars

\* logins on one connection, auth and the handler behind it that changes the password
NextChange ==
    \/ Login_FindUser(1)
    \/ Login_Compare(1)
    \/ \E r \in Reqs : Auth(r)
    \/ \E r \in Reqs : ChangePassword_FindById(r)
    \/ \E r \in Reqs : ChangePassword_Update(r)
SpecChange == InitReg /\ [][NextChange]_vars

Next == NextReg \/ NextSession \/ NextGate \/ NextReset \/ NextResetLogin \/ NextChange
Spec == Init /\ [][Next]_vars

\* one request at a time: sendOTP requests made one after the other
NextOtpSeq ==
    \/ SendOTP_FindUser(1)
    \/ SendOTP_FindOtp(1)
    \/ SendOTP_Create(1)
    \/ TickOtp
    \/ TTLPurge
SpecOtpSeq == InitReg /\ [][NextOtpSeq]_vars

\* sendOTP requests on one connection and signups on another, on a clock fine enough for
\* two unexpired OTP records of one email to differ in createdAt
NextOtpRace ==
    \/ SendOTP_FindUser(1)
    \/ SendOTP_FindOtp(1)
    \/ SendOTP_Create(1)
    \/ Signup_FindUser(2)
    \/ Signup_FindOtp(2)
    \/ TickRace
    \/ TTLPurge
SpecOtpRace == InitReg /\ [][NextOtpRace]_vars

\* one client, one request after the other: logins whose responses it keeps; then
\* requests that present a kept login token, changePassword behind them and
\* updatePassword, while the clock passes the token expiry
Quiet(r) == pc[r] \in {"idle", "done"}
NextStateless ==
    \/ (Quiet(2) /\ Login_FindUser(1))
    \/ Login_Compare(1)
    \/ (Quiet(1) /\ Login_FindUser(2))
    \/ Login_Compare(2)
    \/ (Quiet(1) /\ AuthKept(2))
    \/ ChangePassword_FindById(2)
    \/ ChangePassword_Update(2)
    \/ (Quiet(1) /\ UpdatePassword_FindUser(2))
    \/ UpdatePassword_Save(2)
    \/ TickJwt
SpecStateless == InitReg /\ [][NextStateless]_vars

(***************************************************************************)
(* Registration properties                                                 *)
(***************************************************************************)
Registered(us, email) == \E u \in us : u.email = email
SignupWellFormed(b) ==
    /\ \A f \in SignupFields : b[f] # ""
    /\ b.password = b.confirmPassword
\* the request got as far as the OTP lookup
SignupLookedUp(r) ==
    /\ Done(r, "signup")
    /\ SignupWellFormed(body[r])
    /\ ~Registered(hist[r].users, body[r].email)

\* C1: a signup with all seven fields, matching passwords, an unregistered email and the
\* code of the most recent live OTP record of that email answers 201, and afterwards
\* exactly one User with that email exists, carrying the supplied accountType.
C1_ValidSignupRegisters ==
    \A r \in Reqs :
        ( /\ SignupLookedUp(r)
          /\ loc[r].otpPresent # NoOtp
          /\ loc[r].otpPresent.otp = body[r].otp
          /\ hist[r].t < loc[r].otpPresent.createdAt + OtpExpires )
        => /\ res[r].status = 201
           /\ Cardinality({u \in users : u.email = body[r].email}) = 1
           /\ \A u \in users : u.email = body[r].email => u.accountType = body[r].accountType

\* C2: a well-formed signup for an email that already has a User answers 400
\* "User already registered" whatever the otp, and creates no User and no Profile.
C2_RegisteredEmailRejected ==
    \A r \in Reqs :
        ( /\ Done(r, "signup")
          /\ SignupWellFormed(body[r])
          /\ Registered(hist[r].users, body[r].email) )
        => /\ res[r].status = 400
           /\ res[r].message = "User already registered"
           /\ users = hist[r].users
           /\ profiles = hist[r].profiles
C2_Witness ==
    \E r \in Reqs :
        /\ Done(r, "signup")
        /\ SignupWellFormed(body[r])
        /\ Registered(hist[r].users, body[r].email)
        /\ \E o \in otps : o.otp = body[r].otp
        /\ res[r].message = "User already registered"

\* C3: in every reachable state, also with signups for one email interleaved, at most
\* one User record exists per email.
C3_EmailUnique ==
    \A u1, u2 \in users : u1.email = u2.email => u1 = u2
\* two signups for one unregistered email, both past the User.findOne check, one of
\* them finished with the code of the stored OTP record
C3_Witness ==
    \E r1, r2 \in Reqs :
        /\ r1 # r2
        /\ SignupLookedUp(r1)
        /\ loc[r1].otpPresent # NoOtp
        /\ loc[r1].otpPresent.otp = body[r1].otp
        /\ op[r2] = "signup"
        /\ pc[r2] = "su_findOtp"
        /\ body[r2].email = body[r1].email

\* C4: a sendOTP for an email that already has a User answers "User already registered",
\* creates no OTP record and sends no verification email.
C4_RegisteredEmailGetsNoOtp ==
    \A r \in Reqs :
        ( /\ Done(r, "sendOTP")
          /\ Registered(hist[r].users, body[r].email) )
        => /\ res[r].status = 401
           /\ res[r].message = "User already registered"
           /\ hist[r].mailed = ""
           /\ \A o \in otps : o.email # body[r].email
C4_Witness ==
    \E r \in Reqs :
        /\ Done(r, "sendOTP")
        /\ Registered(hist[r].users, body[r].email)
        /\ res[r].status = 401
        /\ otps # {}

\* C5: after sendOTP requests made one after the other, the stored OTP records have
\* pairwise distinct codes.
C5_CodesDistinct ==
    \A o1, o2 \in otps : o1 # o2 => o1.otp # o2.otp
C5_Witness ==
    \E o1, o2 \in otps :
        /\ o1.email # o2.email
        /\ o1.createdAt = o2.createdAt
        /\ o1.otp # o2.otp

\* C6: a signup for an email that has no OTP record younger than 300 seconds answers
\* 400 "OTP Expired" and creates no user.
C6_ExpiredOtpRejected ==
    \A r \in Reqs :
        ( /\ SignupLookedUp(r)
          /\ \/ loc[r].otpPresent = NoOtp
             \/ loc[r].otpPresent.createdAt + OtpExpires < hist[r].t )
        => /\ res[r].status = 400
           /\ res[r].message = "OTP Expired"
           /\ users = hist[r].users

\* C7: a signup whose otp differs from the code of the most recent OTP record of its
\* email answers 400 "Invalid OTP" and creates no User and no Profile.
C7_WrongOtpInvalid ==
    \A r \in Reqs :
        ( /\ SignupLookedUp(r)
          /\ loc[r].otpPresent # NoOtp
          /\ hist[r].t < loc[r].otpPresent.createdAt + OtpExpires
          /\ loc[r].otpPresent.otp # body[r].otp )
        => /\ res[r].status = 400
           /\ res[r].message = "Invalid OTP"
           /\ users = hist[r].users
           /\ profiles = hist[r].profiles

(***************************************************************************)
(* Session properties                                                      *)
(***************************************************************************)
LoggedIn(r) == Done(r, "login") /\ res[r].status = 200

C9_LoginFailuresAlike ==
    \A r1, r2 \in Reqs :
        ( /\ Done(r1, "login") /\ Done(r2, "login")
          /\ body[r1].email # "" /\ body[r1].password # ""
          /\ ~Registered(users, body[r1].email)
          /\ \E u \in users : /\ u.email = body[r2].email
                              /\ body[r2].password # ""
                              /\ ~BcryptCompare(body[r2].password, u.password) )
        => res[r1] = res[r2]

\* C10: after a successful login the token stored on the user's record equals the token
\* returned to the client.
C10_TokenPersisted ==
    \A r \in Reqs :
        LoggedIn(r) =>
            \E u \in users : u.email = body[r].email /\ u.token = res[r].data.token

C12_MissingTokenDenied ==
    \A r \in Reqs :
        ( /\ Done(r, "auth")
          /\ body[r].cookie = NoToken
          /\ body[r].token = NoToken
          /\ body[r].header = NoToken )
        => /\ res[r].status = 401
           /\ res[r].error = "Token is missing"
           /\ ~hist[r].next

\* the first present of cookie, body field and Authorization header, in that order
FirstPresented(b) ==
    IF b.cookie # NoToken THEN b.cookie
    ELSE IF b.token # NoToken THEN b.token
    ELSE b.header

\* C13: auth decides on the first present of cookie token, body token and Authorization
\* Bearer token, in that order: a request whose only token is a valid one in the header
\* is authorized, and with several tokens the earlier source decides the outcome.
C13_ExtractionOrder ==
    \A r \in Reqs :
        ( /\ Done(r, "auth")
          /\ FirstPresented(body[r]) # NoToken )
        => LET token == FirstPresented(body[r])
           IN IF JwtVerify(token, JwtSecret, hist[r].t) = "ok"
              THEN hist[r].next /\ loc[r].reqUser = JwtDecoded(token)
              ELSE ~hist[r].next /\ res[r].status = 401 /\ res[r].error = "Token is invalid"

GateRole == [isStudent |-> "Student", isInstructor |-> "Instructor", isAdmin |-> "Admin"]

\* C14: for every validated token each role gate calls next exactly when the token's
\* accountType is the gate's own role, and answers 403 "Access Denied" otherwise; an
\* Admin token is denied by isInstructor and by isStudent.
C14_RoleGateExact ==
    \A r \in Reqs :
        (pc[r] = "done" /\ op[r] \in DOMAIN GateRole)
        => IF loc[r].reqUser.accountType = GateRole[op[r]]
           THEN hist[r].next /\ res[r] = NoRes
           ELSE ~hist[r].next /\ res[r].status = 403 /\ res[r].error = "Access Denied"
C14_Witness ==
    \E r1, r2 \in Reqs :
        /\ op[r1] = "isInstructor" /\ op[r2] = "isAdmin"
        /\ loc[r1].reqUser.accountType = "Admin"
        /\ loc[r2].reqUser.accountType = "Admin"
        /\ res[r1].status = 403
        /\ hist[r2].next

(***************************************************************************)
(* Reset properties                                                        *)
(***************************************************************************)
Issued(r) == Done(r, "resetPasswordToken") /\ res[r].status = 200
Updated(r) == Done(r, "updatePassword") /\ res[r].status = 200
StoredPassword(us, email) == {u.password : u \in {v \in us : v.email = email}}

\* C15: after resetPasswordToken succeeded for an email, the User stored for that email
\* holds the generated token and the expiry issuance time + 300 s, and a lookup by that
\* token, as updatePassword does it, finds exactly that user.
C15_ResetTokenStored ==
    \A r \in Reqs :
        ( /\ Issued(r)
          /\ \A q \in Reqs : op[q] = "updatePassword" => body[q].token # res[r].data.resetLink )
        => \E u \in users :
            /\ u.email = body[r].email
            /\ u.token = res[r].data.resetLink
            /\ u.resetPasswordExpires = hist[r].t + ResetExpire
            /\ UserFindOneByToken(res[r].data.resetLink) = {u}

\* C16: an updatePassword before the expiry with an issued reset token and newPassword
\* equal to confirmPassword succeeds; a login after it succeeds with the new password
\* and answers "Invalid credentials" with any other.
C16_ResetThenLogin ==
    \A l \in resetLinks : \A r \in Reqs :
        ( /\ Done(r, "updatePassword")
          /\ body[r].token = l.token
          /\ body[r].newPassword = body[r].confirmPassword
          /\ hist[r].t <= l.t + ResetExpire )
        => /\ res[r].status = 200
           /\ StoredPassword(users, l.email) = {BcryptHash(body[r].newPassword)}
           /\ \A q \in Reqs :
                ( /\ Done(q, "login")
                  /\ body[q].email = l.email /\ body[q].password # ""
                  /\ hist[q].users = users )
                => IF body[q].password = body[r].newPassword
                   THEN res[q].status = 200
                   ELSE res[q].status = 400 /\ res[q].message = "Invalid credentials"

\* C17: an updatePassword that presents an issued reset token more than 300 s after its
\* issuance answers "Token expired." and leaves the stored password unchanged.
C17_ExpiredResetToken ==
    \A l \in resetLinks : \A r \in Reqs :
        ( /\ Done(r, "updatePassword")
          /\ body[r].token = l.token
          /\ body[r].newPassword = body[r].confirmPassword
          /\ hist[r].t > l.t + ResetExpire )
        => /\ res[r].status = 400
           /\ res[r].message = "Token expired."
           /\ StoredPassword(users, l.email) = StoredPassword(hist[r].users, l.email)

C20_UnknownTokenInvalid ==
    \A r \in Reqs :
        ( /\ Done(r, "updatePassword")
          /\ body[r].newPassword = body[r].confirmPassword
          /\ \A u \in hist[r].users : u.token # body[r].token )
        => /\ res[r].status = 404
           /\ res[r].message = "Invalid token."
           /\ users = hist[r].users

(***************************************************************************)
(* Response contents, OTP issuance and delivery                            *)
(***************************************************************************)
\* C21: no response of signup, login, changePassword or updatePassword contains the
\* stored password hash of any user.
C21_NoHashInResponse ==
    \A r \in Reqs :
        (pc[r] = "done" /\ op[r] \in {"signup", "login", "changePassword", "updatePassword"})
        => \A u \in users : /\ res[r].data.password # u.password
                            /\ res[r].data.hashedPassword # u.password

\* C22: the response of a successful sendOTP is an acknowledgment that does not contain
\* the generated code.
C22_OtpNotInResponse ==
    \A r \in Reqs :
        (Done(r, "sendOTP") /\ res[r].status = 200) => res[r].data.otp = ""

\* C24: a sendOTP for an unregistered email whose first code equals the code of a stored
\* record generates another code and succeeds: a collision never makes the request fail.
C24_CollisionRetried ==
    \A r \in Reqs :
        (Done(r, "sendOTP") /\ ~Registered(hist[r].users, body[r].email))
        => res[r].status = 200

\* C27: an OTP record is saved only after its code was delivered to its address: a
\* failed delivery leaves no record behind.
C27_SavedOnlyAfterDelivery ==
    \A r \in Reqs :
        (Done(r, "sendOTP") /\ hist[r].mailed = "failed")
        => /\ res[r].status # 200
           /\ \A o \in otps : ~(o.email = body[r].email /\ o.otp = res[r].data.otp)

(***************************************************************************)
(* changePassword properties                                               *)
(***************************************************************************)
PasswordOfId(us, id) == {u.password : u \in {v \in us : v._id = id}}
\* the three fields present, oldPassword matching the hash read by the handler, and
\* newPassword equal to confirmPassword
ChangeAccepted(r) ==
    /\ body[r].oldPassword # "" /\ body[r].newPassword # "" /\ body[r].confirmPassword # ""
    /\ PasswordOfId(hist[r].users, loc[r].reqUser.id) = {BcryptHash(body[r].oldPassword)}
    /\ body[r].newPassword = body[r].confirmPassword
ChangeRan(r) == op[r] = "changePassword" /\ pc[r] \in {"cp_update", "done"}

\* C23: behind auth, changePassword stores a hash of newPassword and answers 200 exactly
\* when the three fields are present, oldPassword matches the stored hash and newPassword
\* equals confirmPassword; otherwise it answers a failure and leaves the stored password
\* as it is; it runs only for a request whose token auth has verified.
C23_ChangePassword ==
    /\ [](\A r \in Reqs :
            ChangeRan(r) =>
                /\ JwtVerify(AuthExtract(body[r]).token, JwtSecret, hist[r].t) = "ok"
                /\ loc[r].reqUser = JwtDecoded(AuthExtract(body[r]).token)
                /\ pc[r] = "cp_update" => ChangeAccepted(r)
                /\ pc[r] = "done" => /\ res[r].status = 200 <=> ChangeAccepted(r)
                                     /\ res[r].status \in {200, 400, 500})
    /\ [][\A r \in Reqs :
            /\ (pc[r] = "cp_update" /\ pc'[r] = "done")
               => PasswordOfId(users', loc[r].reqUser.id) = {BcryptHash(body[r].newPassword)}
            /\ (Done(r, "auth") /\ op'[r] = "changePassword" /\ pc'[r] = "done")
               => users' = users]_vars
C23_Witness ==
    \E r \in Reqs :
        /\ Done(r, "changePassword")
        /\ res[r].status = 200
        /\ body[r].oldPassword # body[r].newPassword
        /\ PasswordOfId(users, loc[r].reqUser.id) = {BcryptHash(body[r].newPassword)}

(***************************************************************************)
(* signup and the OTP records                                              *)
(***************************************************************************)
LiveOtps(email) == {o \in otps : o.email = email /\ now < o.createdAt + OtpExpires}
PassedOtpCheck(rs) ==
    rs.error # "TypeError" /\ rs.message \notin {"OTP Expired", "Invalid OTP"}

\* C25: with several live OTP records for one email, signup compares the submitted code
\* with the record created last: the newest record's code passes the OTP verification,
\* the code of an older live record is answered 'Invalid OTP'.
C25_NewestOtpWins ==
    [][\A r \in Reqs :
        (pc[r] = "su_findOtp" /\ pc'[r] = "done") =>
            LET mine == LiveOtps(body[r].email)
                newest == {o \in mine : \A p \in mine : p.createdAt < o.createdAt \/ p = o}
            IN (Cardinality(mine) >= 2 /\ newest # {}) =>
                   /\ (\E o \in newest : o.otp = body[r].otp) => PassedOtpCheck(res'[r])
                   /\ (\E o \in mine \ newest : o.otp = body[r].otp)
                          => res'[r].message = "Invalid OTP"]_vars

SignupStep(r) ==
    /\ op'[r] = "signup"
    /\ <<pc[r], op[r], body[r], res[r]>> # <<pc'[r], op'[r], body'[r], res'[r]>>

\* C26: no step of a signup request, succeeding or failing, deletes or modifies an OTP
\* record: the set of OTP records after the step is the set before it, so the code the
\* request compared with is still stored when the request has ended.
C26_SignupLeavesOtps ==
    [][\A r \in Reqs : SignupStep(r) => otps' = otps]_vars
C26_Witness ==
    \E r \in Reqs :
        /\ Done(r, "signup")
        /\ loc[r].otpPresent # NoOtp
        /\ loc[r].otpPresent.otp = body[r].otp
        /\ loc[r].otpPresent \in otps

Middlewares == {"auth"} \cup DOMAIN GateRole

\* C29: each of auth, isStudent, isInstructor and isAdmin either calls next and sends no
\* response, or sends one failure response and does not call next; so what is mounted
\* behind auth runs only with req.user decoded from a token whose signature and expiry
\* were verified, and what is mounted behind a role gate only with the gate's role.
C29_NextOrFailure ==
    \A r \in Reqs :
        (pc[r] = "done" /\ op[r] \in Middlewares) =>
            /\ hist[r].next <=> res[r] = NoRes
            /\ ~hist[r].next => res[r].status \in {401, 403, 500}
            /\ hist[r].next =>
                  /\ ~AuthExtract(body[r]).thrown
                  /\ JwtVerify(AuthExtract(body[r]).token, JwtSecret, hist[r].t) = "ok"
                  /\ loc[r].reqUser = JwtDecoded(AuthExtract(body[r]).token)
            /\ (hist[r].next /\ op[r] \in DOMAIN GateRole)
                  => loc[r].reqUser.accountType = GateRole[op[r]]
C29_Witness ==
    \E r1, r2 \in Reqs :
        /\ pc[r1] = "done" /\ op[r1] \in DOMAIN GateRole
        /\ hist[r1].next /\ res[r1] = NoRes
        /\ Done(r2, "auth")
        /\ ~hist[r2].next /\ res[r2].status = 401

(***************************************************************************)
(* Statelessness of auth                                                   *)
(***************************************************************************)
\* C28: what auth decides depends on the presented token and the time only, not on the
\* stored User record: a token signed by a login is accepted until its own expiry, one
\* hour after it was issued, also after the same user has logged in again or the stored
\* password has been changed or reset, and it is rejected from its expiry on.
C28_AuthStateless ==
    \A r \in Reqs :
        ( /\ Done(r, "auth")
          /\ ~AuthExtract(body[r]).thrown
          /\ AuthExtract(body[r]).token.sig = JwtSecret )
        => LET token == AuthExtract(body[r]).token
           IN /\ hist[r].next <=> hist[r].t < token.iat + JwtExpiresIn
              /\ hist[r].next => loc[r].reqUser = JwtDecoded(token)
              /\ ~hist[r].next => res[r].status = 401
C28_Witness ==
    \E r \in Reqs :
        /\ Done(r, "auth")
        /\ hist[r].next
        /\ body[r].token.sig = JwtSecret
        /\ cookieJar.token.id = body[r].token.id
        /\ cookieJar.token.iat > body[r].token.iat
        /\ PasswordOfId(hist[r].users, body[r].token.id) # PasswordOfId(SeedUsers, body[r].token.id)

====
